---- MODULE Spec2Model ----
(***************************************************************************)
(* Bubbler (jules-t/Bubbler), frontend "bubble-advisor": the client score  *)
(* calculators, the risk-level mapping, the indicator normaliser           *)
(* (categoriesToMetrics), the voice hook (useVoiceAgent) and the bubble    *)
(* state hooks (useBubbleState / useInitializeBubble) talking to the       *)
(* backend store described by the specification.                           *)
(*                                                                         *)
(* Four specifications share the module:                                   *)
(*   SpecScore  the score calculators applied to bounded category lists    *)
(*   SpecLevel  getRiskLevel applied to scores around its thresholds       *)
(*   SpecNorm   categoriesToMetrics applied to bounded category lists      *)
(*   Spec       the hooks, the API client and the backend store            *)
(***************************************************************************)
EXTENDS Integers, Sequences, FiniteSets, TLC

VARIABLES
    scInput,        \* SpecScore: the Category[] handed to the calculators
    scOut,          \* SpecScore: <<>> before the call, <<results>> after it
    lvInput,        \* SpecLevel: the score handed to getRiskLevel
    lvOut,          \* SpecLevel: <<>> before the call, <<level>> after it
    nmInput,        \* SpecNorm: [bubbleId, categories, useUserValues]
    nmOut,          \* SpecNorm: <<>> before categoriesToMetrics, <<outcome>> after
    nmRequest,      \* SpecNorm: <<>> or <<body>> of the POST /api/initialize sent
    page,           \* Spec: the page mounted, "MarketConsensus" or "UserAnalysis"
    conversationId, \* Spec: useVoiceAgent state conversationId
    isListening,    \* Spec: useVoiceAgent state isListening
    isProcessing,   \* Spec: useVoiceAgent state isProcessing
    recorder,       \* Spec: mediaRecorderRef.current ("none") or its state
    closureCid,     \* Spec: conversationId seen by the memoized startRecording
    voice,          \* Spec: the voice messages of this hook instance, in order
    inits,          \* Spec: the initialize mutations of this page, in order
    cache,          \* Spec: query cache entries ["bubbleState", bubbleId]
    status,         \* Spec: the useBubbleState query of the page
    store,          \* Spec: backend store, bubble identifier -> snapshot
    log,            \* Spec: backend store, conversation logs per bubble
    nextConv,       \* Spec: backend, next conversation identifier to mint
    pgPhase,        \* SpecPage: UserAnalysis is "closed" or "mounted"
    pgCategories,   \* SpecPage: UserAnalysis state categories
    pgUserScore,    \* SpecPage: UserAnalysis state userScore
    pgStorage,      \* SpecPage: localStorage item 'userCategories'
    pgSent,         \* SpecPage: body of the last initialize request sent
    pgMount,        \* SpecPage: what the last mount found and left
    pgCount,        \* SpecPage: user actions so far
    pgLast,         \* SpecPage: the handler run last and the categories before it
    calls           \* SpecBackend: the voice conversation invocations, in order

scoreVars == <<scInput, scOut>>
levelVars == <<lvInput, lvOut>>
normVars == <<nmInput, nmOut, nmRequest>>
hookVars == <<conversationId, isListening, isProcessing, recorder, closureCid,
              voice>>
backendVars == <<store, log, nextConv>>
sysVars == <<page, hookVars, inits, cache, status, backendVars>>
pageVars == <<pgPhase, pgCategories, pgUserScore, pgStorage, pgSent, pgMount,
              pgCount, pgLast>>
orchVars == <<calls>>
vars == <<scInput, scOut, lvInput, lvOut, nmInput, nmOut, nmRequest, sysVars,
          pageVars, orchVars>>

\* a specification leaves the variables of the others at these values
ScoreIdle == scInput = <<>> /\ scOut = <<>>
LevelIdle == lvInput = <<>> /\ lvOut = <<>>
NormIdle == nmInput = <<>> /\ nmOut = <<>> /\ nmRequest = <<>>
ClientIdle ==
    /\ page = "" /\ conversationId = <<>> /\ isListening = FALSE
    /\ isProcessing = FALSE /\ recorder = "none"
    /\ closureCid = <<>> /\ voice = <<>> /\ inits = <<>> /\ cache = <<>>
    /\ status = <<>>
SysIdle == ClientIdle /\ store = <<>> /\ log = <<>> /\ nextConv = 1
PageIdle ==
    /\ pgPhase = "" /\ pgCategories = <<>> /\ pgUserScore = <<>>
    /\ pgStorage = <<>> /\ pgSent = <<>> /\ pgMount = <<>> /\ pgCount = 0
    /\ pgLast = <<>>
OrchIdle == calls = <<>>

(***************************************************************************)
(* Bounds of the model.                                                    *)
(***************************************************************************)
MaxCats == 2          \* longest category list of the general input family
MaxIdx == 3           \* most indexes in one list of the general input family
MaxUniformIdx == 2    \* most indexes per category of the uniform input family
MaxMissingCats == 1   \* most categories left out of a normaliser input
MaxMissingIdx == 1    \* most indexes left out of a normaliser input
ProbeRadius == 12     \* scores probed on each side of a threshold (1e-5 steps)

\* The application has five categories (valuation, sentiment, positioning,
\* macro, fundamentals).
NumCategories == 5

(***************************************************************************)
(* JavaScript numbers.  A number is a fraction <<n, d>> in lowest terms    *)
(* with d > 0; NaN is <<0, 0>>.  The only divisions by zero the modelled   *)
(* code can perform are 0 / 0 (an empty index list, an empty category      *)
(* list), so infinities do not arise.  Rounding of IEEE doubles is not     *)
(* modelled: arithmetic is exact.                                          *)
(***************************************************************************)
NaN == <<0, 0>>
IsNaN(x) == x[2] = 0
Abs(n) == IF n < 0 THEN -n ELSE n

RECURSIVE Gcd(_, _)
Gcd(a, b) == IF b = 0 THEN a ELSE Gcd(b, a % b)

Frac(n, d) ==
    IF d = 0 THEN NaN
    ELSE CHOOSE r \in { <<(s * n) \div g, (s * d) \div g>> :
                          g \in {Gcd(Abs(n), Abs(d))},
                          s \in {IF d < 0 THEN -1 ELSE 1} } : TRUE

Num(n) == <<n, 1>>
Zero == Num(0)
Hundred == Num(100)

\* Each operator evaluates its operands once (a \in {x}) and then works on
\* the values.
Add(x, y) ==
    CHOOSE r \in { IF IsNaN(a) \/ IsNaN(b) THEN NaN
                   ELSE Frac(a[1] * b[2] + b[1] * a[2], a[2] * b[2]) :
                   a \in {x}, b \in {y} } : TRUE
Mul(x, y) ==
    CHOOSE r \in { IF IsNaN(a) \/ IsNaN(b) THEN NaN
                   ELSE Frac(a[1] * b[1], a[2] * b[2]) :
                   a \in {x}, b \in {y} } : TRUE
\* x / y; 0 / 0 is NaN
Div(x, y) ==
    CHOOSE r \in { IF IsNaN(a) \/ IsNaN(b) THEN NaN
                   ELSE Frac(a[1] * b[2], a[2] * b[1]) :
                   a \in {x}, b \in {y} } : TRUE
\* comparisons with NaN are false
Lt(x, y) ==
    \E a \in {x}, b \in {y} : ~IsNaN(a) /\ ~IsNaN(b) /\ a[1] * b[2] < b[1] * a[2]
Gt(x, y) == Lt(y, x)
Le(x, y) ==
    \E a \in {x}, b \in {y} : ~IsNaN(a) /\ ~IsNaN(b) /\ a[1] * b[2] <= b[1] * a[2]
\* Math.min(x, y): NaN when either argument is NaN
MathMin(x, y) ==
    CHOOSE r \in { IF IsNaN(a) \/ IsNaN(b) THEN NaN
                   ELSE IF a[1] * b[2] <= b[1] * a[2] THEN a ELSE b :
                   a \in {x}, b \in {y} } : TRUE

RECURSIVE SumFrom(_, _)
\* the running sum `acc += s[i]` of a forEach / reduce starting at 0
SumFrom(s, i) == IF i > Len(s) THEN Zero ELSE Add(s[i], SumFrom(s, i + 1))
Sum(s) == SumFrom(s, 1)

(***************************************************************************)
(* Category and Index (types/bubble.ts).  An optional field is a sequence: *)
(* <<>> when undefined, <<v>> when set.  Only the fields the calculators   *)
(* and the normaliser read are kept.                                       *)
(***************************************************************************)
Undefined == <<>>
Defined(v) == <<v>>

MkIndex(v, w, uv) == [value |-> v, marketWeight |-> w, userValue |-> uv]
MkCategory(mw, uw, idx) == [marketWeight |-> mw, userWeight |-> uw, indexes |-> idx]

(***************************************************************************)
(* utils/dataMapper.ts: calculateClientRiskScore                           *)
(***************************************************************************)
\* const value = useUserValues && index.userValue !== undefined
\*                 ? index.userValue : index.value
ClientIndexValue(index, useUserValues) ==
    IF useUserValues /\ index.userValue # Undefined
    THEN index.userValue[1] ELSE index.value

\* const indexWeight = useUserValues ? 1 : index.marketWeight || 1
\* (`||` replaces a falsy weight, 0 included, by 1)
ClientIndexWeight(index, useUserValues) ==
    IF useUserValues THEN 1
    ELSE IF index.marketWeight = 0 THEN 1 ELSE index.marketWeight

\* the inner forEach and the division guarded by categoryIndexWeight > 0
ClientCategoryScore(category, useUserValues) ==
    LET idx == category.indexes
        categoryScore ==
            Sum([i \in DOMAIN idx |->
                   Mul(Num(ClientIndexValue(idx[i], useUserValues)),
                       Num(ClientIndexWeight(idx[i], useUserValues)))])
        categoryIndexWeight ==
            Sum([i \in DOMAIN idx |-> Num(ClientIndexWeight(idx[i], useUserValues))])
    IN IF Gt(categoryIndexWeight, Zero)
       THEN Div(categoryScore, categoryIndexWeight)
       ELSE categoryScore

\* const weight = useUserValues ? category.userWeight : category.marketWeight
ClientCategoryWeight(category, useUserValues) ==
    IF useUserValues THEN category.userWeight ELSE category.marketWeight

\* the outer forEach and `totalWeight > 0 ? totalScore / totalWeight : 0`
calculateClientRiskScore(categories, useUserValues) ==
    LET totalScore ==
            Sum([i \in DOMAIN categories |->
                   Mul(ClientCategoryScore(categories[i], useUserValues),
                       Num(ClientCategoryWeight(categories[i], useUserValues)))])
        totalWeight ==
            Sum([i \in DOMAIN categories |->
                   Num(ClientCategoryWeight(categories[i], useUserValues))])
    IN IF Gt(totalWeight, Zero) THEN Div(totalScore, totalWeight) ELSE Zero

(***************************************************************************)
(* utils/dataMapper.ts: getRiskLevel                                       *)
(***************************************************************************)
LowBelow == 33        \* if (score < 33) return "LOW"
MediumBelow == 67     \* if (score < 67) return "MEDIUM"

getRiskLevel(score) ==
    IF Lt(score, Num(LowBelow)) THEN "LOW"
    ELSE IF Lt(score, Num(MediumBelow)) THEN "MEDIUM"
    ELSE "HIGH"

(***************************************************************************)
(* pages/MarketConsensus.tsx: calculateScore                               *)
(***************************************************************************)
\* category.indexes.reduce((sum, index) => sum + index.value, 0)
\*   / category.indexes.length          (0 / 0 = NaN for an empty list)
MarketCategoryScore(category) ==
    LET idx == category.indexes
    IN Div(Sum([i \in DOMAIN idx |-> Num(idx[i].value)]), Num(Len(idx)))

MarketCalculateScore(cats) ==
    LET totalScore ==
            Sum([i \in DOMAIN cats |->
                   Mul(MarketCategoryScore(cats[i]), Num(cats[i].marketWeight))])
        totalWeight == Sum([i \in DOMAIN cats |-> Num(cats[i].marketWeight)])
    IN IF Gt(totalWeight, Zero)
       THEN MathMin(Hundred, Div(totalScore, totalWeight)) ELSE Zero

(***************************************************************************)
(* pages/UserAnalysis.tsx: calculateScore                                  *)
(***************************************************************************)
\* const indexValue = index.userValue !== undefined ? index.userValue : index.value
UserIndexValue(index) ==
    IF index.userValue # Undefined THEN index.userValue[1] ELSE index.value

UserCategoryScore(category) ==
    LET idx == category.indexes
    IN Div(Sum([i \in DOMAIN idx |-> Num(UserIndexValue(idx[i]))]), Num(Len(idx)))

\* totalScore += categoryScore * (category.userWeight / 100);
\* return Math.min(100, totalScore / cats.length)
UserCalculateScore(cats) ==
    LET totalScore ==
            Sum([i \in DOMAIN cats |->
                   Mul(UserCategoryScore(cats[i]),
                       Div(Num(cats[i].userWeight), Hundred))])
    IN MathMin(Hundred, Div(totalScore, Num(Len(cats))))

(***************************************************************************)
(* SpecScore: the calculators applied to a category list.                  *)
(*                                                                         *)
(* The general family holds every list of up to MaxCats categories with up *)
(* to MaxIdx indexes in all, drawn from IndexSamples and CategoryWeights:  *)
(* it has zero weights, unequal weights, user values, values above 100,    *)
(* categories without indexes and the empty list.  The uniform family      *)
(* holds the lists of NumCategories categories with one value, one index   *)
(* weight and one category weight throughout.                              *)
(***************************************************************************)
IndexSamples ==
    { MkIndex(100, 0, Undefined), MkIndex(0, 10, Undefined),
      MkIndex(50, 10, Defined(150)), MkIndex(150, 30, Defined(0)) }

\* <<marketWeight, userWeight>>
CategoryWeights == { <<50, 50>>, <<20, 100>> }

RECURSIVE SumInts(_, _)
SumInts(f, i) == IF i > Len(f) THEN 0 ELSE f[i] + SumInts(f, i + 1)

\* the list of Len(lens) categories, category i taking weights ws[i] and the
\* next lens[i] indexes of flat
GeneralInput(lens, ws, flat) ==
    [i \in DOMAIN lens |->
        MkCategory(ws[i][1], ws[i][2],
                   [j \in 1..lens[i] |-> flat[SumInts(SubSeq(lens, 1, i - 1), 1) + j]])]

UniformValues == {0, 50, 100}
UniformIndexWeights == {10, 30}
UniformCategoryWeights == {50, 100}

UniformInput(v, iw, cw, k) ==
    [c \in 1..NumCategories |->
        MkCategory(cw, cw, [i \in 1..k |-> MkIndex(v, iw, Undefined)])]

UniformInputs ==
    { UniformInput(v, iw, cw, k) :
        v \in UniformValues, iw \in UniformIndexWeights,
        cw \in UniformCategoryWeights, k \in 1..MaxUniformIdx }

ScoreInit ==
    /\ \/ \E n \in 0..MaxCats :
             \E lens \in [1..n -> 0..MaxIdx] :
                /\ SumInts(lens, 1) <= MaxIdx
                /\ \E ws \in [1..n -> CategoryWeights] :
                      \E flat \in [1..SumInts(lens, 1) -> IndexSamples] :
                         scInput = GeneralInput(lens, ws, flat)
       \/ scInput \in UniformInputs
    /\ scOut = <<>>
    /\ LevelIdle /\ NormIdle /\ SysIdle /\ PageIdle /\ OrchIdle

\* one call of each calculator on the same list, in both modes where the
\* calculator has a mode
ScoreResults(cats) ==
    [ clientMarket |-> calculateClientRiskScore(cats, FALSE),
      clientUser |-> calculateClientRiskScore(cats, TRUE),
      catMarket |-> [i \in DOMAIN cats |-> ClientCategoryScore(cats[i], FALSE)],
      catUser |-> [i \in DOMAIN cats |-> ClientCategoryScore(cats[i], TRUE)],
      market |-> MarketCalculateScore(cats),
      user |-> UserCalculateScore(cats),
      levelClientMarket |-> getRiskLevel(calculateClientRiskScore(cats, FALSE)),
      levelClientUser |-> getRiskLevel(calculateClientRiskScore(cats, TRUE)),
      levelUser |-> getRiskLevel(UserCalculateScore(cats)) ]

CalculateScores ==
    /\ scOut = <<>>
    /\ scOut' = <<ScoreResults(scInput)>>
    /\ UNCHANGED <<scInput, levelVars, normVars, sysVars, pageVars, orchVars>>

ScoreNext == CalculateScores

SpecScore == ScoreInit /\ [][ScoreNext]_vars

(***************************************************************************)
(* SpecLevel: getRiskLevel applied to scores in steps of 0.00001 around    *)
(* 33, 33.34, 66.67 and 67, and to 0, 50 and 100.                          *)
(***************************************************************************)
ProbeCentres == {3300000, 3334000, 6667000, 6700000}

LevelProbes ==
    { Frac(c + k, 100000) : c \in ProbeCentres, k \in (-ProbeRadius)..ProbeRadius }
    \cup { Num(0), Num(50), Num(100) }

LevelInit ==
    /\ lvInput \in LevelProbes
    /\ lvOut = <<>>
    /\ ScoreIdle /\ NormIdle /\ SysIdle /\ PageIdle /\ OrchIdle

GetRiskLevel ==
    /\ lvOut = <<>>
    /\ lvOut' = <<getRiskLevel(lvInput)>>
    /\ UNCHANGED <<lvInput, scoreVars, normVars, sysVars, pageVars, orchVars>>

LevelNext == GetRiskLevel

SpecLevel == LevelInit /\ [][LevelNext]_vars

(***************************************************************************)
(* types/bubble.ts: CATEGORIES, the five categories and their indexes in   *)
(* declaration order, with each index's market value.                      *)
(***************************************************************************)
Idx(id, v) == [id |-> id, value |-> v, userValue |-> Undefined]

CATEGORIES ==
    << [id |-> "valuation", marketWeight |-> 50, userWeight |-> 50,
        indexes |-> << Idx("pe-ratio", 85), Idx("revenue-multiple", 78),
                       Idx("market-cap", 68), Idx("growth-premium", 82) >>],
       [id |-> "sentiment", marketWeight |-> 50, userWeight |-> 50,
        indexes |-> << Idx("media-mentions", 92), Idx("social-sentiment", 88),
                       Idx("search-trends", 75), Idx("analyst-ratings", 80),
                       Idx("ipo-activity", 70) >>],
       [id |-> "positioning", marketWeight |-> 50, userWeight |-> 50,
        indexes |-> << Idx("fund-flows", 72), Idx("institutional", 68),
                       Idx("retail-interest", 85), Idx("options-volume", 76) >>],
       [id |-> "macro", marketWeight |-> 50, userWeight |-> 50,
        indexes |-> << Idx("interest-rates", 55), Idx("liquidity", 65),
                       Idx("vix", 68), Idx("put-call", 72) >>],
       [id |-> "fundamentals", marketWeight |-> 50, userWeight |-> 50,
        indexes |-> << Idx("revenue-growth", 88), Idx("profit-margins", 62),
                       Idx("capex-cycle", 78), Idx("adoption-rate", 70),
                       Idx("competition", 75) >>] >>

(***************************************************************************)
(* utils/dataMapper.ts: categoriesToMetrics                                *)
(***************************************************************************)
\* the fields of the returned object in evaluation order:
\* <<metrics category, field, category id, index id>>
MetricsFields ==
    << <<"category_1_valuation", "pe_ratio", "valuation", "pe-ratio">>,
       <<"category_1_valuation", "revenue_multiple", "valuation", "revenue-multiple">>,
       <<"category_1_valuation", "market_cap_gdp", "valuation", "market-cap">>,
       <<"category_1_valuation", "growth_premium", "valuation", "growth-premium">>,
       <<"category_2_sentiment", "media_mentions", "sentiment", "media-mentions">>,
       <<"category_2_sentiment", "social_sentiment", "sentiment", "social-sentiment">>,
       <<"category_2_sentiment", "search_trends", "sentiment", "search-trends">>,
       <<"category_2_sentiment", "analyst_ratings", "sentiment", "analyst-ratings">>,
       <<"category_2_sentiment", "ipo_activity", "sentiment", "ipo-activity">>,
       <<"category_3_positioning", "fund_flows", "positioning", "fund-flows">>,
       <<"category_3_positioning", "institutional_holdings", "positioning", "institutional">>,
       <<"category_3_positioning", "retail_interest", "positioning", "retail-interest">>,
       <<"category_3_positioning", "options_volume", "positioning", "options-volume">>,
       <<"category_4_macro", "interest_rates", "macro", "interest-rates">>,
       <<"category_4_macro", "liquidity", "macro", "liquidity">>,
       <<"category_4_macro", "vix", "macro", "vix">>,
       <<"category_4_macro", "put_call_ratio", "macro", "put-call">>,
       <<"category_5_fundamentals", "revenue_growth", "fundamentals", "revenue-growth">>,
       <<"category_5_fundamentals", "profit_margins", "fundamentals", "profit-margins">>,
       <<"category_5_fundamentals", "capex_cycle", "fundamentals", "capex-cycle">>,
       <<"category_5_fundamentals", "adoption_rate", "fundamentals", "adoption-rate">>,
       <<"category_5_fundamentals", "competition", "fundamentals", "competition">> >>

\* interface MetricsData with MetricsCategory1..5: the declared fields, as
\* <<metrics category, field>>
MetricsData ==
    { <<"category_1_valuation", f>> :
         f \in {"pe_ratio", "revenue_multiple", "market_cap_gdp", "growth_premium"} }
    \cup { <<"category_2_sentiment", f>> :
         f \in {"media_mentions", "social_sentiment", "search_trends",
                "analyst_ratings"} }
    \cup { <<"category_3_positioning", f>> :
         f \in {"fund_flows", "institutional_holdings", "retail_interest",
                "options_volume"} }
    \cup { <<"category_4_macro", f>> :
         f \in {"interest_rates", "liquidity", "vix", "put_call_ratio"} }
    \cup { <<"category_5_fundamentals", f>> :
         f \in {"revenue_growth", "profit_margins", "capex_cycle", "adoption_rate"} }

\* the categories looked up, in the order of the `find` calls
RequiredCategories ==
    <<"valuation", "sentiment", "positioning", "macro", "fundamentals">>

MinOf(S) == CHOOSE x \in S : \A y \in S : x <= y

\* Array.prototype.find: <<first element whose id is `id`>>, or Undefined
FindById(list, id) ==
    LET hits == {i \in DOMAIN list : list[i].id = id}
    IN IF hits = {} THEN Undefined ELSE <<list[MinOf(hits)]>>

\* const getValue = (index) => useUserValues && index.userValue !== undefined
\*                               ? index.userValue : index.value
getValue(index, useUserValues) ==
    IF useUserValues /\ index.userValue # Undefined
    THEN index.userValue[1] ELSE index.value

\* mutant: a missing index is replaced by a default index of value 0
findIndexOrDefault(category, id) ==
    IF FindById(category.indexes, id) = Undefined
    THEN <<Idx(id, 0)>> ELSE FindById(category.indexes, id)

\* const findIndex = (category, id): <<index>>, or Undefined where the code
\* throws `Index ${id} not found in category ${category.id}`
findIndex(category, id) ==
    FindById(category.indexes, id)

Threw(message) == [threw |-> TRUE, message |-> message]
Returned(metrics) == [threw |-> FALSE, metrics |-> metrics]

categoriesToMetrics(categories, useUserValues) ==
    IF \E k \in DOMAIN RequiredCategories :
          FindById(categories, RequiredCategories[k]) = Undefined
    THEN Threw(<<"Missing required categories">>)
    ELSE LET found(k) ==
                 findIndex(FindById(categories, MetricsFields[k][3])[1],
                           MetricsFields[k][4])
             missing == {k \in DOMAIN MetricsFields : found(k) = Undefined}
         IN IF missing # {}
            THEN \* the first findIndex call that fails throws
                 Threw(<<"Index", MetricsFields[MinOf(missing)][4],
                         "not found in category", MetricsFields[MinOf(missing)][3]>>)
            ELSE Returned(
                   [f \in {<<MetricsFields[k][1], MetricsFields[k][2]>> :
                             k \in DOMAIN MetricsFields} |->
                      LET k == CHOOSE k \in DOMAIN MetricsFields :
                                   <<MetricsFields[k][1], MetricsFields[k][2]>> = f
                      IN getValue(found(k)[1], useUserValues)])

(***************************************************************************)
(* hooks/useBubbleState.ts: initializeFromCategories, and the request body *)
(* api/client.ts initializeBubble builds from its arguments.               *)
(***************************************************************************)
InitializeRequestBody(bubbleId, metrics) ==
    [bubble_id |-> bubbleId, metrics |-> metrics]

(***************************************************************************)
(* SpecNorm: categoriesToMetrics applied to CATEGORIES with up to          *)
(* MaxMissingCats categories and MaxMissingIdx indexes left out, or to     *)
(* CATEGORIES with one index given a market value and a user value from    *)
(* ProbeValues (in range, above 100, below 0), in both modes; the metrics  *)
(* returned are then sent in an initialize request.                        *)
(***************************************************************************)
RECURSIVE SubsetsUpTo(_, _)
\* the subsets of S with at most n elements
SubsetsUpTo(S, n) ==
    IF n = 0 THEN {{}}
    ELSE SubsetsUpTo(S, n - 1)
         \cup {T \cup {x} : T \in SubsetsUpTo(S, n - 1), x \in S}

CategoryIdSet == {CATEGORIES[i].id : i \in DOMAIN CATEGORIES}
IndexIdSet ==
    UNION {{CATEGORIES[i].indexes[j].id : j \in DOMAIN CATEGORIES[i].indexes} :
             i \in DOMAIN CATEGORIES}

RECURSIVE Keep(_, _, _)
\* list.filter(x => x.id not in drop), from position i
Keep(list, drop, i) ==
    IF i > Len(list) THEN <<>>
    ELSE IF list[i].id \in drop THEN Keep(list, drop, i + 1)
    ELSE <<list[i]>> \o Keep(list, drop, i + 1)

Without(missingCats, missingIdx) ==
    LET kept == Keep(CATEGORIES, missingCats, 1)
    IN [i \in DOMAIN kept |->
          [kept[i] EXCEPT !.indexes = Keep(kept[i].indexes, missingIdx, 1)]]

ProbeValues == {100, 150}
ProbeUserValues == {Undefined, Defined(50), Defined(-10)}

WithProbe(id, v, uv) ==
    [i \in DOMAIN CATEGORIES |->
       [CATEGORIES[i] EXCEPT !.indexes =
          [j \in DOMAIN CATEGORIES[i].indexes |->
             IF CATEGORIES[i].indexes[j].id = id
             THEN [id |-> id, value |-> v, userValue |-> uv]
             ELSE CATEGORIES[i].indexes[j]]]]

NormInit ==
    /\ \E useUserValues \in BOOLEAN :
          \/ \E mc \in SubsetsUpTo(CategoryIdSet, MaxMissingCats) :
                \E mi \in SubsetsUpTo(IndexIdSet, MaxMissingIdx) :
                   nmInput = [bubbleId |-> "personal_user",
                              categories |-> Without(mc, mi),
                              useUserValues |-> useUserValues]
          \/ \E id \in IndexIdSet, v \in ProbeValues, uv \in ProbeUserValues :
                nmInput = [bubbleId |-> "personal_user",
                           categories |-> WithProbe(id, v, uv),
                           useUserValues |-> useUserValues]
    /\ nmOut = <<>>
    /\ nmRequest = <<>>
    /\ ScoreIdle /\ LevelIdle /\ SysIdle /\ PageIdle /\ OrchIdle

\* const metrics = categoriesToMetrics(categories, useUserValues)
CategoriesToMetrics ==
    /\ nmOut = <<>>
    /\ nmOut' = <<categoriesToMetrics(nmInput.categories, nmInput.useUserValues)>>
    /\ UNCHANGED <<nmInput, nmRequest, scoreVars, levelVars, sysVars, pageVars, orchVars>>

\* initializeBubble.mutate({ bubbleId, metrics }), reached only when
\* categoriesToMetrics returned; the client posts the metrics as they are
SendInitialize ==
    /\ nmOut # <<>> /\ ~nmOut[1].threw
    /\ nmRequest = <<>>
    /\ nmRequest' = <<InitializeRequestBody(nmInput.bubbleId, nmOut[1].metrics)>>
    /\ UNCHANGED <<nmInput, nmOut, scoreVars, levelVars, sysVars, pageVars, orchVars>>

NormNext == CategoriesToMetrics \/ SendInitialize

SpecNorm == NormInit /\ [][NormNext]_vars

(***************************************************************************)
(* Spec: one mounted page with its hooks (useVoiceAgent, useBubbleState's  *)
(* cache, useInitializeBubble), the API client and the backend.  The       *)
(* backend is not part of the repository's sources; its store and          *)
(* conversation orchestrator follow the specification (sections 4.4, 4.5). *)
(***************************************************************************)
MaxCalls == 2         \* recordings and initialize mutations started after mount

BUBBLE_ID == "personal_user"
BubbleIds == {"market", BUBBLE_ID}
Pages == {"MarketConsensus", "UserAnalysis"}
ConvIds == 1..MaxCalls

\* useVoiceAgent(BUBBLE_ID) on UserAnalysis, useVoiceAgent() on MarketConsensus
HookBubbleId(p) == IF p = "UserAnalysis" THEN Defined(BUBBLE_ID) ELSE Undefined

\* The metrics of an initialize request, abstracted to what the backend does
\* with them: reject them (a value out of range) or compute this score.
\* clientScore is what UserAnalysis.calculateScore makes of the categories.
DefaultIndicators ==
    [name |-> "default", score |-> 74, clientScore |-> 37, valid |-> TRUE]
IndicatorSets ==
    { DefaultIndicators,
      [name |-> "adjusted", score |-> 20, clientScore |-> 10, valid |-> TRUE],
      [name |-> "out-of-range", score |-> 150, clientScore |-> 75, valid |-> FALSE] }
\* the metrics another caller of the backend initializes the market bubble with
MarketIndicators ==
    [name |-> "market", score |-> 50, clientScore |-> 25, valid |-> TRUE]

\* backend: risk level of a score (specification 4.2 step 4)
BackendRiskLevel(score) ==
    IF score * 100 < 3334 THEN "LOW"
    ELSE IF score * 100 < 6667 THEN "MEDIUM" ELSE "HIGH"

\* backend: persona of a risk level, one of three fixed variants
\* (specification 4.3)
Persona(level) ==
    CASE level = "LOW" -> "confident/euphoric"
      [] level = "MEDIUM" -> "anxious/uncertain"
      [] level = "HIGH" -> "panicked/fragile"

\* backend: upsert's snapshot of an indicator set
Snapshot(ind) ==
    [indicators |-> ind.name, risk_score |-> ind.score,
     risk_level |-> BackendRiskLevel(ind.score),
     personality |-> Persona(BackendRiskLevel(ind.score))]

Ok(data) == [ok |-> TRUE, data |-> data]
Failed(kind) == [ok |-> FALSE, error |-> kind]

\* useMutation variables { bubbleId, metrics } and the request's progress
InitRequest(bubbleId, ind) ==
    [pc |-> "inflight", bubbleId |-> bubbleId, metrics |-> ind, response |-> <<>>]

\* A voice message, from the recorder created by startRecording on.  Its
\* onstop handler calls the processAudio of the render that created
\* startRecording, so bubble_id and conversation_id are the values that render
\* saw; known records the hook's conversationId state when the recording
\* started.
VoiceCall(bubbleId, cid, known) ==
    [pc |-> "recording", bubble_id |-> bubbleId, conversation_id |-> cid,
     known |-> known, response |-> <<>>]

\* queryClient.setQueryData(["bubbleState", bubbleId], data), mutated and as
\* the code has it
SetQueryDataEverywhere(entries, bubbleId, data) ==
    [b \in DOMAIN entries |-> Defined(data)]

SetQueryData(entries, bubbleId, data) ==
    [entries EXCEPT ![bubbleId] = Defined(data)]

\* A render recomputes useCallback(..., [toast]): startRecording keeps the
\* closure of the render that created it unless toast changed identity.
\* use-toast is not among the sources, so both outcomes are allowed.
Rerender(cid) == closureCid' \in {closureCid, cid}

\* UserAnalysis runs its [categories] effect on mount, MarketConsensus
\* initializes nothing
MountInits(p) ==
    IF p = "UserAnalysis"
    THEN <<InitRequest(BUBBLE_ID, DefaultIndicators)>> ELSE <<>>

\* useBubbleState(BUBBLE_ID) on UserAnalysis starts fetching on mount;
\* MarketConsensus has no such query
StatusQuery(p) ==
    [pc |-> IF p = "UserAnalysis" THEN "inflight" ELSE "none",
     failureCount |-> 0, response |-> <<>>]

\* the bound on the calls started after mount is not yet reached
CallsLeft == Len(voice) + Len(inits) < MaxCalls + Len(MountInits(page))

Init ==
    /\ page \in Pages
    /\ conversationId = Undefined /\ isListening = FALSE /\ isProcessing = FALSE
    /\ recorder = "none" /\ closureCid = Undefined
    /\ voice = <<>>
    /\ inits = MountInits(page)
    /\ cache = [b \in BubbleIds |-> Undefined]
    /\ status = StatusQuery(page)
    /\ store = [b \in BubbleIds |-> Undefined]
    /\ log = [b \in BubbleIds |-> [c \in ConvIds |-> <<>>]]
    /\ nextConv = 1
    /\ ScoreIdle /\ LevelIdle /\ NormIdle /\ PageIdle /\ OrchIdle

pureVars == <<scoreVars, levelVars, normVars, pageVars, orchVars>>

\* startRecording, reached from the mic button while not listening; a
\* rejected getUserMedia only shows a toast and changes nothing
StartRecording ==
    /\ ~isListening
    /\ CallsLeft
    /\ recorder' = "recording"
    /\ voice' = Append(voice, VoiceCall(HookBubbleId(page), closureCid,
                                        conversationId))
    /\ isListening' = TRUE
    /\ Rerender(conversationId)
    /\ UNCHANGED <<page, conversationId, isProcessing, inits, cache,
                   backendVars, status, pureVars>>

\* stopRecording, then the recorder's onstop handler calling processAudio
\* up to reader.readAsDataURL
StopRecording ==
    /\ isListening
    /\ recorder = "recording"
    /\ recorder' = "inactive"
    /\ isListening' = FALSE
    /\ isProcessing' = TRUE
    /\ voice' = [voice EXCEPT ![Len(voice)].pc = "reading"]
    /\ Rerender(conversationId)
    /\ UNCHANGED <<page, conversationId, inits, cache, backendVars, status, pureVars>>

\* reader.onloadend with a result: apiClient.sendVoiceMessage(bubbleId,
\* base64Audio, conversationId)
SendVoiceMessage(j) ==
    /\ voice[j].pc = "reading"
    /\ voice' = [voice EXCEPT ![j].pc = "inflight"]
    /\ UNCHANGED <<page, conversationId, isListening, isProcessing, recorder,
                   closureCid, inits, cache, backendVars, status, pureVars>>

\* reader.onloadend without a result: the handler's catch block
ReaderFailed(j) ==
    /\ voice[j].pc = "reading"
    /\ voice' = [voice EXCEPT ![j].pc = "failed"]
    /\ isProcessing' = FALSE
    /\ Rerender(conversationId)
    /\ UNCHANGED <<page, conversationId, isListening, recorder, inits, cache,
                   backendVars, status, pureVars>>

\* backend: get of the Bubble State Store (specification 4.4), mutated and as
\* specified
GetOrDefault(bubbleId) ==
    IF store[bubbleId] = Undefined
    THEN Ok(Snapshot(DefaultIndicators)) ELSE Ok(store[bubbleId][1])

Get(bubbleId) ==
    IF store[bubbleId] = Undefined
    THEN Failed("NotFoundError") ELSE Ok(store[bubbleId][1])

\* backend: one voice conversation call (specification 4.5): RECEIVED,
\* TRANSCRIBED, STATE_LOADED (get), REPLIED, SYNTHESIZED, LOGGED (appendTurn)
VoiceOutcomes == {"ok", "TranscriptionError", "GenerationError", "SynthesisError"}

UserTurn(j) == [role |-> "user", call |-> j]
AgentTurn(j) == [role |-> "agent", call |-> j]

\* backend: appendTurn of the Bubble State Store (specification 4.4), mutated
\* to append the two turns of a call separately (the user's turn first, the
\* agent's by a later append), and as specified
appendTurnUserFirst(bubbleId, convId, userText, agentText) ==
    [log EXCEPT ![bubbleId][convId] = Append(@, userText)]

appendTurn(bubbleId, convId, userText, agentText) ==
    [log EXCEPT ![bubbleId][convId] = @ \o <<userText, agentText>>]

BackendVoice(j) ==
    /\ voice[j].pc = "inflight"
    /\ \E outcome \in VoiceOutcomes :
          LET req == voice[j]
              b == req.bubble_id[1]
              minted == req.conversation_id = Undefined
              cid == IF minted THEN nextConv ELSE req.conversation_id[1]
              loaded == Get(b)
              error ==
                  IF req.bubble_id = Undefined THEN "ValidationError"
                  ELSE IF outcome = "TranscriptionError" THEN outcome
                  ELSE IF ~loaded.ok THEN loaded.error
                  ELSE outcome
          IN  IF error = "ok"
              THEN /\ log' = appendTurn(b, cid, UserTurn(j), AgentTurn(j))
                   /\ nextConv' = IF minted THEN nextConv + 1 ELSE nextConv
                   /\ voice' = [voice EXCEPT
                         ![j].pc = "replied",
                         ![j].response =
                             <<Ok([conversation_id |-> cid,
                                   snapshot |-> loaded.data])>>]
                   /\ UNCHANGED store
              ELSE /\ voice' = [voice EXCEPT ![j].pc = "replied",
                                             ![j].response = <<Failed(error)>>]
                   /\ UNCHANGED backendVars
    /\ UNCHANGED <<page, conversationId, isListening, isProcessing, recorder,
                   closureCid, inits, cache, status, pureVars>>

\* processAudio uses a response for the conversation id, the transcript,
\* the reply and the audio; it makes no queryClient call.  Mutated to store
\* the response's snapshot, and as the code has it
CacheAfterVoiceStored(entries, bubbleId, data) ==
    IF bubbleId = Undefined THEN entries
    ELSE SetQueryData(entries, bubbleId[1], data.snapshot)

CacheAfterVoice(entries, bubbleId, data) == entries

\* where reader.onloadend leaves the call: resolve(response) after a
\* response whose audio plays, the catch block's toast and reject(error)
\* after a thrown ApiError or a rejected audio.play().  Mutated to send the
\* request again after an ApiError, and as the code has it
SettledRetrying(response, played) ==
    IF response.ok THEN (IF played THEN "done" ELSE "failed") ELSE "inflight"

Settled(response, played) ==
    IF response.ok /\ played THEN "done" ELSE "failed"

\* setIsProcessing(false) before resolve(response) and in the catch block.
\* Mutated to leave the catch block without it, and as the code has it
ProcessingAfterSuccessOnly(response, played) == ~(response.ok /\ played)

ProcessingAfter(response, played) == FALSE

\* the rest of reader.onloadend once sendVoiceMessage settles: the state
\* updates, then base64ToBlob and await audio.play(), which may reject
VoiceSettled(j) ==
    /\ voice[j].pc = "replied"
    /\ \E played \in BOOLEAN :
          /\ voice' = [voice EXCEPT
                ![j].pc = Settled(voice[j].response[1], played),
                ![j].response = <<>>]
          /\ isProcessing' = ProcessingAfter(voice[j].response[1], played)
    /\ cache' = IF voice[j].response[1].ok
                THEN CacheAfterVoice(cache, voice[j].bubble_id,
                                     voice[j].response[1].data)
                ELSE cache
    /\ conversationId' =
          IF voice[j].response[1].ok
          THEN Defined(voice[j].response[1].data.conversation_id)
          ELSE conversationId
    /\ Rerender(conversationId')
    /\ UNCHANGED <<page, isListening, recorder, inits,
                   backendVars, status, pureVars>>

\* UserAnalysis: the [categories] effect calling initializeFromCategories
ClientInitialize(ind) ==
    /\ page = "UserAnalysis"
    /\ CallsLeft
    /\ inits' = Append(inits, InitRequest(BUBBLE_ID, ind))
    /\ Rerender(conversationId)
    /\ UNCHANGED <<page, conversationId, isListening, isProcessing, recorder,
                   voice, cache, backendVars, status, pureVars>>

\* backend: upsert of a validated indicator set (specification 4.4), mutated
\* to keep the score, level and persona of an existing bubble, and as
\* specified
UpsertKeepingScore(bubbleId, ind) ==
    [store EXCEPT ![bubbleId] =
        IF @ = Undefined THEN Defined(Snapshot(ind))
        ELSE Defined([@[1] EXCEPT !.indicators = ind.name])]

Upsert(bubbleId, ind) == [store EXCEPT ![bubbleId] = Defined(Snapshot(ind))]

BackendInitialize(i) ==
    /\ inits[i].pc = "inflight"
    /\ IF inits[i].metrics.valid
       THEN /\ store' = Upsert(inits[i].bubbleId, inits[i].metrics)
            /\ inits' = [inits EXCEPT
                  ![i].pc = "replied",
                  ![i].response = <<Ok(Snapshot(inits[i].metrics))>>]
       ELSE /\ inits' = [inits EXCEPT
                  ![i].pc = "replied",
                  ![i].response = <<Failed("ValidationError")>>]
            /\ UNCHANGED store
    /\ UNCHANGED <<page, hookVars, cache, log, nextConv, status, pureVars>>

\* useInitializeBubble: the mutation settles; onSuccess updates the cache
InitializeSettled(i) ==
    /\ inits[i].pc = "replied"
    /\ inits' = [inits EXCEPT
          ![i].pc = IF inits[i].response[1].ok THEN "success" ELSE "error",
          ![i].response = <<>>]
    /\ cache' = IF inits[i].response[1].ok
                THEN SetQueryData(cache, inits[i].bubbleId,
                                  inits[i].response[1].data)
                ELSE cache
    /\ Rerender(conversationId)
    /\ UNCHANGED <<page, conversationId, isListening, isProcessing, recorder,
                   voice, backendVars, status, pureVars>>

\* backend: one get-status call
BackendStatus ==
    /\ status.pc = "inflight"
    /\ status' = [status EXCEPT !.pc = "replied",
                                !.response = <<Get(BUBBLE_ID)>>]
    /\ UNCHANGED <<page, hookVars, inits, cache, backendVars, pureVars>>

\* useBubbleState: retry: 2 (a failed fetch is repeated twice before the query
\* is in error; the data stays as it is)
Retries == 2

\* useBubbleState: the fetch settles
StatusSettled ==
    /\ status.pc = "replied"
    /\ IF status.response[1].ok
       THEN /\ status' = [pc |-> "success", failureCount |-> 0, response |-> <<>>]
            /\ cache' = SetQueryData(cache, BUBBLE_ID, status.response[1].data)
       ELSE /\ status' = [pc |-> IF status.failureCount < Retries
                                 THEN "inflight" ELSE "error",
                          failureCount |-> status.failureCount + 1,
                          response |-> <<>>]
            /\ UNCHANGED cache
    /\ Rerender(conversationId)
    /\ UNCHANGED <<page, conversationId, isListening, isProcessing, recorder,
                   voice, inits, backendVars, pureVars>>

\* UserAnalysis: userScore, the client score of the categories last rendered,
\* and displayScore = bubbleState?.risk_score ?? userScore
userScore ==
    IF inits = <<>> THEN 0 ELSE inits[Len(inits)].metrics.clientScore

displayScoreClientOnly == userScore

displayScore ==
    LET bubbleState == cache[BUBBLE_ID]
    IN IF bubbleState # Undefined THEN bubbleState[1].risk_score ELSE userScore

\* the market bubble is initialized by another caller of the backend
ExternalInitialize ==
    /\ store["market"] # Defined(Snapshot(MarketIndicators))
    /\ store' = Upsert("market", MarketIndicators)
    /\ UNCHANGED <<page, hookVars, inits, cache, log, nextConv, status, pureVars>>

Next ==
    \/ StartRecording
    \/ StopRecording
    \/ \E j \in DOMAIN voice : SendVoiceMessage(j)
    \/ \E j \in DOMAIN voice : ReaderFailed(j)
    \/ \E j \in DOMAIN voice : BackendVoice(j)
    \/ \E j \in DOMAIN voice : VoiceSettled(j)
    \/ \E ind \in IndicatorSets : ClientInitialize(ind)
    \/ \E i \in DOMAIN inits : BackendInitialize(i)
    \/ \E i \in DOMAIN inits : InitializeSettled(i)
    \/ ExternalInitialize
    \/ BackendStatus
    \/ StatusSettled

Spec == Init /\ [][Next]_vars

\* SpecLive: the voice hook of the mounted page and the backend, with the
\* file read, the request and the handling of its answer completing (a
\* FileReader fires loadend, fetch settles, the continuation of an await
\* runs).  The page's mount initialize is answered at any time; its sliders
\* and its status query, which neither read nor write the hook's state, are
\* left out.
LiveNext ==
    \/ StartRecording
    \/ StopRecording
    \/ \E j \in DOMAIN voice : SendVoiceMessage(j)
    \/ \E j \in DOMAIN voice : ReaderFailed(j)
    \/ \E j \in DOMAIN voice : BackendVoice(j)
    \/ \E j \in DOMAIN voice : VoiceSettled(j)
    \/ \E i \in DOMAIN inits : BackendInitialize(i)
    \/ \E i \in DOMAIN inits : InitializeSettled(i)
    \/ ExternalInitialize

Fairness ==
    /\ WF_vars(\E j \in DOMAIN voice : SendVoiceMessage(j) \/ ReaderFailed(j))
    /\ WF_vars(\E j \in DOMAIN voice : BackendVoice(j))
    /\ WF_vars(\E j \in DOMAIN voice : VoiceSettled(j))

SpecLive == Init /\ [][LiveNext]_vars /\ Fairness

(***************************************************************************)
(* SpecBackend: the Conversation Orchestrator serving voice conversation   *)
(* calls in parallel, one state machine per invocation, over the Bubble    *)
(* State Store (specification 4.4, 4.5).  The backend is not part of the   *)
(* repository's sources.                                                   *)
(***************************************************************************)
MaxInvocations == 2   \* voice conversation calls received

\* conversation identifiers: those the orchestrator mints (1, 2, ...) and one
\* of the caller's own choosing that the store has not seen, whose log
\* appendTurn creates on its first turn
UnseenConvId == 0
OrchConvIds == {UnseenConvId} \cup (1..MaxInvocations)

\* a received invocation; snapshot is set by the state load
Invocation(bubbleId, cid) ==
    [stage |-> "RECEIVED", bubble_id |-> bubbleId, conversation_id |-> cid,
     snapshot |-> <<>>, error |-> ""]

BackendInit ==
    /\ calls = <<>>
    /\ store = [b \in BubbleIds |-> Undefined]
    /\ log = [b \in BubbleIds |-> [c \in OrchConvIds |-> <<>>]]
    /\ nextConv = 1
    /\ ScoreIdle /\ LevelIdle /\ NormIdle /\ ClientIdle /\ PageIdle

backendOtherVars ==
    <<scoreVars, levelVars, normVars, page, hookVars, inits, cache, status,
      pageVars>>

\* a call arrives with a conversation identifier an earlier call returned,
\* with the caller's own, or with none
Receive(bubbleId, cid) ==
    /\ Len(calls) < MaxInvocations
    /\ cid # Undefined => cid[1] = UnseenConvId \/ cid[1] < nextConv
    /\ calls' = Append(calls, Invocation(bubbleId, cid))
    /\ UNCHANGED <<backendVars, backendOtherVars>>

\* an invocation ends at the stage that fails
Fail(j, kind) == [calls EXCEPT ![j].stage = "FAILED", ![j].error = kind]

\* RECEIVED -> TRANSCRIBED, or TranscriptionError
Transcribe(j) ==
    /\ calls[j].stage = "RECEIVED"
    /\ calls' \in {[calls EXCEPT ![j].stage = "TRANSCRIBED"],
                   Fail(j, "TranscriptionError")}
    /\ UNCHANGED <<backendVars, backendOtherVars>>

\* TRANSCRIBED -> STATE_LOADED by get(bubbleId), or NotFoundError
LoadState(j) ==
    /\ calls[j].stage = "TRANSCRIBED"
    /\ LET loaded == Get(calls[j].bubble_id)
       IN  calls' = IF loaded.ok
                    THEN [calls EXCEPT ![j].stage = "STATE_LOADED",
                                       ![j].snapshot = <<loaded.data>>]
                    ELSE Fail(j, loaded.error)
    /\ UNCHANGED <<backendVars, backendOtherVars>>

\* STATE_LOADED -> PROMPT_BUILT
BuildPrompt(j) ==
    /\ calls[j].stage = "STATE_LOADED"
    /\ calls' = [calls EXCEPT ![j].stage = "PROMPT_BUILT"]
    /\ UNCHANGED <<backendVars, backendOtherVars>>

\* PROMPT_BUILT -> REPLIED, or GenerationError
Generate(j) ==
    /\ calls[j].stage = "PROMPT_BUILT"
    /\ calls' \in {[calls EXCEPT ![j].stage = "REPLIED"],
                   Fail(j, "GenerationError")}
    /\ UNCHANGED <<backendVars, backendOtherVars>>

\* REPLIED -> SYNTHESIZED, or SynthesisError
Synthesize(j) ==
    /\ calls[j].stage = "REPLIED"
    /\ calls' \in {[calls EXCEPT ![j].stage = "SYNTHESIZED"],
                   Fail(j, "SynthesisError")}
    /\ UNCHANGED <<backendVars, backendOtherVars>>

\* SYNTHESIZED -> LOGGED by appendTurn, minting the conversation identifier
\* if the call supplied none
AppendTurn(j) ==
    /\ calls[j].stage = "SYNTHESIZED"
    /\ LET minted == calls[j].conversation_id = Undefined
           cid == IF minted THEN nextConv ELSE calls[j].conversation_id[1]
       IN  /\ log' = appendTurn(calls[j].bubble_id, cid,
                                UserTurn(j), AgentTurn(j))
           /\ nextConv' = IF minted THEN nextConv + 1 ELSE nextConv
           /\ calls' = [calls EXCEPT ![j].stage = "LOGGED",
                                     ![j].conversation_id = Defined(cid)]
    /\ UNCHANGED <<store, backendOtherVars>>

\* LOGGED -> RETURNED
Return(j) ==
    /\ calls[j].stage = "LOGGED"
    /\ calls' = [calls EXCEPT ![j].stage = "RETURNED"]
    /\ UNCHANGED <<backendVars, backendOtherVars>>

\* an initialize call of a valid indicator set
Initialize(bubbleId, ind) ==
    /\ ind.valid
    /\ store[bubbleId] # Defined(Snapshot(ind))
    /\ store' = Upsert(bubbleId, ind)
    /\ UNCHANGED <<calls, log, nextConv, backendOtherVars>>

BackendNext ==
    \/ \E b \in BubbleIds :
          \E cid \in {Undefined} \cup {Defined(c) : c \in OrchConvIds} :
              Receive(b, cid)
    \/ \E j \in DOMAIN calls : Transcribe(j)
    \/ \E j \in DOMAIN calls : LoadState(j)
    \/ \E j \in DOMAIN calls : BuildPrompt(j)
    \/ \E j \in DOMAIN calls : Generate(j)
    \/ \E j \in DOMAIN calls : Synthesize(j)
    \/ \E j \in DOMAIN calls : AppendTurn(j)
    \/ \E j \in DOMAIN calls : Return(j)
    \/ \E ind \in {DefaultIndicators, MarketIndicators} :
          Initialize(IF ind = MarketIndicators THEN "market" ELSE BUBBLE_ID, ind)

SpecBackend == BackendInit /\ [][BackendNext]_vars

(***************************************************************************)
(* SpecPage: the User Analysis page with its categories state, its         *)
(* autosave and load effects and localStorage, over page reloads.          *)
(***************************************************************************)
MaxPageSteps == 3     \* user actions (slider moves, resets, reloads)

\* the sliders the model moves, and the positions it moves them to
EditedCategories == {"valuation", "macro"}
EditedIndexes == {<<"valuation", "pe-ratio">>, <<"macro", "liquidity">>}
WeightSamples == {0, 80}
ValueSamples == {0, 90}

\* JSON.stringify(categories): a property whose value is undefined is left out
JsonStringify(cats) ==
    [i \in DOMAIN cats |->
       [id |-> cats[i].id, marketWeight |-> cats[i].marketWeight,
        userWeight |-> cats[i].userWeight,
        indexes |->
           [j \in DOMAIN cats[i].indexes |->
              LET index == cats[i].indexes[j]
              IN IF index.userValue = Undefined
                 THEN [id |-> index.id, value |-> index.value]
                 ELSE [id |-> index.id, value |-> index.value,
                       userValue |-> index.userValue[1]]]]]

\* JSON.parse(savedCategories): a property left out reads as undefined
JsonParse(text) ==
    [i \in DOMAIN text |->
       [id |-> text[i].id, marketWeight |-> text[i].marketWeight,
        userWeight |-> text[i].userWeight,
        indexes |->
           [j \in DOMAIN text[i].indexes |->
              LET entry == text[i].indexes[j]
              IN [id |-> entry.id, value |-> entry.value,
                  userValue |-> IF "userValue" \in DOMAIN entry
                                THEN Defined(entry.userValue) ELSE Undefined]]]]

handleCategoryWeightChange(prev, categoryId, weight) ==
    [i \in DOMAIN prev |->
       IF prev[i].id = categoryId
       THEN [prev[i] EXCEPT !.userWeight = weight] ELSE prev[i]]

handleIndexValueChange(prev, categoryId, indexId, value) ==
    [i \in DOMAIN prev |->
       IF prev[i].id = categoryId
       THEN [prev[i] EXCEPT !.indexes =
               [j \in DOMAIN prev[i].indexes |->
                  IF prev[i].indexes[j].id = indexId
                  THEN [prev[i].indexes[j] EXCEPT !.userValue = Defined(value)]
                  ELSE prev[i].indexes[j]]]
       ELSE prev[i]]

\* handleReset: setCategories(CATEGORIES.map(cat => ({ ...cat, userWeight:
\* cat.marketWeight, indexes: all with userValue undefined }))).  Mutated to
\* reset the weights of the current state only, and as the code has it
handleResetWeightsOfState ==
    [i \in DOMAIN pgCategories |->
       [pgCategories[i] EXCEPT !.userWeight = pgCategories[i].marketWeight]]

handleReset ==
    [i \in DOMAIN CATEGORIES |->
       [CATEGORIES[i] EXCEPT
          !.userWeight = CATEGORIES[i].marketWeight,
          !.indexes = [j \in DOMAIN CATEGORIES[i].indexes |->
                         [CATEGORIES[i].indexes[j] EXCEPT !.userValue = Undefined]]]]

\* the load effect: setCategories(JSON.parse(savedCategories)) if an item is
\* stored, otherwise the state stays
LoadEffect(storage, cats) ==
    IF storage # Undefined THEN JsonParse(storage[1]) ELSE cats

\* a render with categories = cats followed by the [categories] effect:
\* setUserScore, localStorage.setItem and initializeFromCategories
CategoriesEffect(cats) ==
    /\ pgCategories' = cats
    /\ pgUserScore' = Defined(UserCalculateScore(cats))
    /\ pgStorage' = Defined(JsonStringify(cats))
    /\ pgSent' = LET out == categoriesToMetrics(cats, TRUE)
                 IN IF out.threw THEN pgSent
                    ELSE Defined(InitializeRequestBody(BUBBLE_ID, out.metrics))

PageInit ==
    /\ pgPhase = "closed"
    /\ pgCategories = <<>> /\ pgUserScore = <<>> /\ pgSent = <<>>
    /\ pgStorage = Undefined
    /\ pgMount = <<>>
    /\ pgCount = 0
    /\ pgLast = <<>>
    /\ ScoreIdle /\ LevelIdle /\ NormIdle /\ SysIdle /\ OrchIdle

otherVars == <<scoreVars, levelVars, normVars, sysVars, orchVars>>

\* the handler that ran and the categories state it found
Ran(handler) == <<[handler |-> handler, before |-> pgCategories]>>

\* Mounting UserAnalysis: the first render has categories = CATEGORIES; the
\* effects run in the order they are declared, the [categories] effect (which
\* writes localStorage) before the load effect (which reads it); the state
\* set by the load effect causes a second render and [categories] effect.
MountUserAnalysis ==
    /\ pgPhase = "closed"
    /\ pgPhase' = "mounted"
    /\ LET first == CATEGORIES
           stored == Defined(JsonStringify(first))
           loaded == LoadEffect(stored, first)
       IN /\ CategoriesEffect(loaded)
          /\ pgMount' = <<[found |-> pgStorage, categories |-> loaded,
                           storage |-> Defined(JsonStringify(loaded))]>>
    /\ pgLast' = Ran("mount")
    /\ UNCHANGED <<pgCount, otherVars>>

CategoryWeightChange(categoryId, weight) ==
    /\ pgPhase = "mounted"
    /\ pgCount < MaxPageSteps
    /\ pgCount' = pgCount + 1
    /\ CategoriesEffect(handleCategoryWeightChange(pgCategories, categoryId, weight))
    /\ pgLast' = Ran("handleCategoryWeightChange")
    /\ UNCHANGED <<pgPhase, pgMount, otherVars>>

IndexValueChange(categoryId, indexId, value) ==
    /\ pgPhase = "mounted"
    /\ pgCount < MaxPageSteps
    /\ pgCount' = pgCount + 1
    /\ CategoriesEffect(handleIndexValueChange(pgCategories, categoryId, indexId, value))
    /\ pgLast' = Ran("handleIndexValueChange")
    /\ UNCHANGED <<pgPhase, pgMount, otherVars>>

\* CategoryControls, normal mode: Number.prototype.toFixed(0) of a score that
\* is not negative, and the category score shown above the slider,
\* (category.userCategoryScore ?? getCategoryScore(category, true)).toFixed(0);
\* Category has no userCategoryScore and nothing sets one
ToFixed0(x) == (2 * x[1] + x[2]) \div (2 * x[2])

DisplayedCategoryScore(category) == ToFixed0(UserCategoryScore(category))

\* the positions the category score slider is moved to
ScoreSamples == {20, 90}

\* CategoryControls, normal mode: the category score slider's onValueChange,
\* if (onCategoryScoreChange) onCategoryScoreChange(category.id, value);
\* UserAnalysis passes no onCategoryScoreChange, so nothing is called
CategoryScoreChange(categoryId, value) ==
    /\ pgPhase = "mounted"
    /\ pgCount < MaxPageSteps
    /\ pgCount' = pgCount + 1
    /\ pgLast' = Ran("onValueChange")
    /\ UNCHANGED <<pgCategories, pgUserScore, pgStorage, pgSent>>
    /\ UNCHANGED <<pgPhase, pgMount, otherVars>>

Reset ==
    /\ pgPhase = "mounted"
    /\ pgCount < MaxPageSteps
    /\ pgCount' = pgCount + 1
    /\ CategoriesEffect(handleReset)
    /\ pgLast' = Ran("handleReset")
    /\ UNCHANGED <<pgPhase, pgMount, otherVars>>

\* the page is reloaded or left: its React state is gone, localStorage stays
ClosePage ==
    /\ pgPhase = "mounted"
    /\ pgCount < MaxPageSteps
    /\ pgCount' = pgCount + 1
    /\ pgPhase' = "closed"
    /\ pgCategories' = <<>> /\ pgUserScore' = <<>> /\ pgSent' = <<>>
    /\ pgLast' = <<>>
    /\ UNCHANGED <<pgStorage, pgMount, otherVars>>

PageNext ==
    \/ MountUserAnalysis
    \/ \E c \in EditedCategories, w \in WeightSamples : CategoryWeightChange(c, w)
    \/ \E e \in EditedIndexes, v \in ValueSamples : IndexValueChange(e[1], e[2], v)
    \/ \E c \in EditedCategories, x \in ScoreSamples : CategoryScoreChange(c, x)
    \/ Reset
    \/ ClosePage

SpecPage == PageInit /\ [][PageNext]_vars

(***************************************************************************)
(* The scoring algorithm as the specification states it (section 4.2).     *)
(***************************************************************************)
\* category_score = sum(value * weight) / sum(weight) over the category's
\* sub-indicators, each with its own weight; 0 when the weights sum to 0
StatedCategoryScore(category, useUserValues) ==
    LET idx == category.indexes
        num == Sum([i \in DOMAIN idx |->
                      Mul(Num(ClientIndexValue(idx[i], useUserValues)),
                          Num(idx[i].marketWeight))])
        den == Sum([i \in DOMAIN idx |-> Num(idx[i].marketWeight)])
    IN IF den = Zero THEN Zero ELSE Div(num, den)

StatedTotalWeight(cats, useUserValues) ==
    Sum([i \in DOMAIN cats |-> Num(ClientCategoryWeight(cats[i], useUserValues))])

\* risk_score = min(100, sum(category_score * category_weight) / sum(category_weight))
StatedRiskScore(cats, useUserValues) ==
    MathMin(Hundred,
        Div(Sum([i \in DOMAIN cats |->
                   Mul(StatedCategoryScore(cats[i], useUserValues),
                       Num(ClientCategoryWeight(cats[i], useUserValues)))]),
            StatedTotalWeight(cats, useUserValues)))

\* < 33.34 LOW, 33.34 <= score < 66.67 MEDIUM, >= 66.67 HIGH
StatedRiskLevel(score) ==
    IF Lt(score, Frac(3334, 100)) THEN "LOW"
    ELSE IF Lt(score, Frac(6667, 100)) THEN "MEDIUM"
    ELSE "HIGH"

\* every value and weight the calculation reads is in 0..100
InRange(cats, useUserValues) ==
    \A i \in DOMAIN cats :
       /\ ClientCategoryWeight(cats[i], useUserValues) \in 0..100
       /\ \A j \in DOMAIN cats[i].indexes :
             /\ ClientIndexValue(cats[i].indexes[j], useUserValues) \in 0..100
             /\ cats[i].indexes[j].marketWeight \in 0..100

ClientResult(useUserValues) ==
    IF useUserValues THEN scOut[1].clientUser ELSE scOut[1].clientMarket

\* C2: for every category list with values and weights in 0..100 (and a
\* positive total category weight, so that the stated quotient exists),
\* calculateClientRiskScore returns min(100, sum(category_score x
\* category_weight) / sum(category_weight)) with category_score weighted by
\* each sub-indicator's own weight, in market mode and in user mode.
C2_ClientScoreIsStatedScore ==
    scOut # <<>> =>
       \A useUserValues \in BOOLEAN :
          (/\ InRange(scInput, useUserValues)
           /\ Gt(StatedTotalWeight(scInput, useUserValues), Zero))
          => ClientResult(useUserValues) = StatedRiskScore(scInput, useUserValues)

\* C3: getRiskLevel maps a score below 33.34 to LOW, a score from 33.34 up
\* to but not including 66.67 to MEDIUM, and a score of 66.67 or more to HIGH.
C3_LevelThresholds ==
    lvOut # <<>> => lvOut[1] = StatedRiskLevel(lvInput)

AllWeightsZero(category) ==
    /\ category.indexes # <<>>
    /\ \A j \in DOMAIN category.indexes : category.indexes[j].marketWeight = 0

\* C4: a category whose sub-indicator weights are all zero has category
\* score 0 in the risk score computation, and that computation does not
\* divide by zero (its category score is a number, not NaN).
C4_ZeroWeightCategoryScoresZero ==
    scOut # <<>> =>
       \A i \in DOMAIN scInput :
          AllWeightsZero(scInput[i]) =>
             /\ scOut[1].catMarket[i] = Zero
             /\ scOut[1].catUser[i] = Zero

\* C5: every score a calculator reports is at most 100, whatever the input
\* (a result that is not a number, from a category without indexes, is left
\* aside).
C5_ScoresAtMost100 ==
    scOut # <<>> =>
       \A r \in { scOut[1].clientMarket, scOut[1].clientUser,
                  scOut[1].market, scOut[1].user } :
          IsNaN(r) \/ Le(r, Hundred)

\* the list has the five categories, every sub-indicator has value v and no
\* user value, the index weights are equal within each category, and the
\* category weights (market and user) are one positive number
IsUniform(cats, v) ==
    /\ Len(cats) = NumCategories
    /\ \A i \in DOMAIN cats :
          /\ cats[i].indexes # <<>>
          /\ \A j \in DOMAIN cats[i].indexes :
                /\ cats[i].indexes[j].value = v
                /\ cats[i].indexes[j].userValue = Undefined
                /\ cats[i].indexes[j].marketWeight = cats[i].indexes[1].marketWeight
          /\ cats[i].marketWeight = cats[1].marketWeight
          /\ cats[i].userWeight = cats[1].marketWeight
          /\ cats[i].marketWeight > 0

\* C6: with one value v for every sub-indicator, uniform index weights and
\* five equal positive category weights, calculateClientRiskScore (either
\* mode) and UserAnalysis.calculateScore return exactly v, and the level of
\* the result is the level of v.
C6_UniformInputScoresItsValue ==
    scOut # <<>> =>
       \A v \in UniformValues :
          IsUniform(scInput, v) =>
             /\ scOut[1].clientMarket = Num(v)
             /\ scOut[1].clientUser = Num(v)
             /\ scOut[1].user = Num(v)
             /\ scOut[1].levelClientMarket = StatedRiskLevel(Num(v))
             /\ scOut[1].levelUser = StatedRiskLevel(Num(v))

(***************************************************************************)
(* The normaliser's input measured against the fixed schema (CATEGORIES).  *)
(***************************************************************************)
Range(f) == {f[i] : i \in DOMAIN f}

HasId(list, id) == \E i \in DOMAIN list : list[i].id = id

\* positions in CATEGORIES of the categories the input lacks
AbsentCategories(cats) ==
    {i \in DOMAIN CATEGORIES : ~HasId(cats, CATEGORIES[i].id)}

\* <<i, j>>: the input has category i of CATEGORIES but not its index j
AbsentIndexes(cats) ==
    {p \in UNION {{<<i, j>> : j \in DOMAIN CATEGORIES[i].indexes} :
                    i \in DOMAIN CATEGORIES} :
        /\ HasId(cats, CATEGORIES[p[1]].id)
        /\ \A c \in DOMAIN cats :
              cats[c].id = CATEGORIES[p[1]].id
                 => ~HasId(cats[c].indexes, CATEGORIES[p[1]].indexes[p[2]].id)}

\* the first pair of a set of <<i, j>> in category order, then index order
FirstPair(S) ==
    CHOOSE p \in S : \A q \in S : p[1] < q[1] \/ (p[1] = q[1] /\ p[2] <= q[2])

\* the value the input holds for index `idxId` of category `catId`, as
\* getValue reads it
InputValue(cats, catId, idxId, useUserValues) ==
    LET c == CHOOSE c \in DOMAIN cats : cats[c].id = catId
        j == CHOOSE j \in DOMAIN cats[c].indexes : cats[c].indexes[j].id = idxId
    IN IF useUserValues /\ cats[c].indexes[j].userValue # Undefined
       THEN cats[c].indexes[j].userValue[1]
       ELSE cats[c].indexes[j].value

\* C7: categoriesToMetrics fails whenever one of the five categories or one
\* sub-indicator of a category's fixed set is absent; when it returns, every
\* field it maps holds the value the input gives for that sub-indicator (no
\* default, no partial structure).
C7_MissingInputFails ==
    nmOut # <<>> =>
       LET cats == nmInput.categories
       IN /\ (AbsentCategories(cats) # {} \/ AbsentIndexes(cats) # {})
                => nmOut[1].threw
          /\ ~nmOut[1].threw =>
                /\ Cardinality(DOMAIN nmOut[1].metrics) = Len(MetricsFields)
                /\ \A k \in DOMAIN MetricsFields :
                      nmOut[1].metrics[<<MetricsFields[k][1], MetricsFields[k][2]>>]
                         = InputValue(cats, MetricsFields[k][3], MetricsFields[k][4],
                                      nmInput.useUserValues)

\* a sub-indicator is absent from a category that is present, and
\* categoriesToMetrics has thrown
C7_Witness ==
    /\ nmOut # <<>>
    /\ nmOut[1].threw
    /\ AbsentCategories(nmInput.categories) = {}
    /\ AbsentIndexes(nmInput.categories) # {}

\* the input is complete and some value getValue reads is outside 0..100
ReadsOutOfRange(input) ==
    /\ AbsentCategories(input.categories) = {}
    /\ AbsentIndexes(input.categories) = {}
    /\ \E k \in DOMAIN MetricsFields :
          InputValue(input.categories, MetricsFields[k][3], MetricsFields[k][4],
                     input.useUserValues) \notin 0..100

\* C8: a sub-indicator value outside [0,100] makes the normalisation fail,
\* and no initialize request carries a metric outside [0,100].
C8_OutOfRangeValueFails ==
    /\ (nmOut # <<>> /\ ReadsOutOfRange(nmInput)) => nmOut[1].threw
    /\ nmRequest # <<>> =>
          \A f \in DOMAIN nmRequest[1].metrics : nmRequest[1].metrics[f] \in 0..100

\* C9: a failed normalisation names the first offending field: the first
\* absent category when a category is absent, otherwise the first absent
\* sub-indicator.
C9_ErrorNamesFirstOffendingField ==
    (nmOut # <<>> /\ nmOut[1].threw) =>
       LET cats == nmInput.categories
       IN IF AbsentCategories(cats) # {}
          THEN CATEGORIES[MinOf(AbsentCategories(cats))].id \in Range(nmOut[1].message)
          ELSE LET p == FirstPair(AbsentIndexes(cats))
               IN CATEGORIES[p[1]].indexes[p[2]].id \in Range(nmOut[1].message)

(***************************************************************************)
(* The voice hook and the bubble state hooks (Spec).                       *)
(***************************************************************************)
\* C1: once a voice exchange has succeeded and its conversation_id c is the
\* hook's conversationId, every voice message whose recording starts
\* afterwards carries conversation_id = c.
C1_LaterMessagesCarryConversationId ==
    \A j \in DOMAIN voice :
       (voice[j].pc \in {"inflight", "replied", "done"} /\ voice[j].known # Undefined)
          => voice[j].conversation_id = voice[j].known

\* a step in which an initialize of bubble a succeeds: the backend's upsert,
\* the mutation's onSuccess, or another caller's initialize of the market
InitializeSucceedsFor(a) ==
    \/ \E i \in DOMAIN inits :
          /\ inits[i].bubbleId = a
          /\ inits[i].metrics.valid
          /\ BackendInitialize(i)
    \/ \E i \in DOMAIN inits :
          /\ inits[i].bubbleId = a
          /\ inits[i].pc = "replied" /\ inits[i].response[1].ok
          /\ InitializeSettled(i)
    \/ /\ a = "market"
       /\ ExternalInitialize

\* C10: a step in which an initialize of bubble a succeeds leaves the
\* backend snapshot, the conversation log and the cached bubbleState entry of
\* every other bubble b as they were.
C10_InitializeIsolated ==
    [][\A a \in BubbleIds :
          InitializeSucceedsFor(a) =>
             \A b \in BubbleIds \ {a} :
                /\ store'[b] = store[b]
                /\ log'[b] = log[b]
                /\ cache'[b] = cache[b]]_vars

\* the personal bubble's initialize has succeeded and reached the cache, it
\* has a conversation, and the market bubble holds a snapshot of its own
C10_Witness ==
    /\ \E i \in DOMAIN inits :
          /\ inits[i].pc = "success"
          /\ cache[BUBBLE_ID] = Defined(Snapshot(inits[i].metrics))
    /\ \E c \in ConvIds : log[BUBBLE_ID][c] # <<>>
    /\ store["market"] # Undefined
    /\ store["market"] # store[BUBBLE_ID]
    /\ cache["market"] = Undefined

\* a voice message whose request has left the client
Sent(j) == voice[j].pc \in {"inflight", "replied", "done"}

\* C13: every voice message sent from the Market Consensus page carries
\* bubble_id = "market".
C13_MarketVoiceAddressesMarket ==
    page = "MarketConsensus" =>
       \A j \in DOMAIN voice : Sent(j) => voice[j].bubble_id = Defined("market")

\* C14: the Market Consensus page issues an initialize request for "market"
\* when it opens, so no voice message is sent from that page before the page
\* has issued that request.
C14_MarketPageInitializesMarket ==
    (page = "MarketConsensus" /\ \E j \in DOMAIN voice : Sent(j)) =>
       \E i \in DOMAIN inits : inits[i].bubbleId = "market"

(***************************************************************************)
(* The User Analysis page (SpecPage).                                      *)
(***************************************************************************)
\* C12: when the page is mounted and localStorage holds the categories saved
\* before, the categories state after the mount effects is those saved
\* categories and localStorage still holds them.
C12_AdjustmentsSurviveReload ==
    (pgMount # <<>> /\ pgMount[1].found # Undefined) =>
       /\ pgMount[1].categories = JsonParse(pgMount[1].found[1])
       /\ pgMount[1].storage = pgMount[1].found

\* C15: a category weight slider move that changes the categories changes the
\* initialize request the page sends for "personal_user".
C15_WeightChangesRequest ==
    [][\A c \in EditedCategories, w \in WeightSamples :
          (CategoryWeightChange(c, w) /\ pgCategories' # pgCategories)
             => pgSent' # pgSent]_vars


\* the backend has answered a request of the page for personal_user with a
\* bubble state
BackendStateAvailable ==
    \/ status.pc = "success"
    \/ \E i \in DOMAIN inits : inits[i].pc = "success"

\* C20: on the User Analysis page the displayed score is the risk_score of
\* the backend bubble state the page holds for personal_user whenever it
\* holds one, which it does once the backend has answered with a state, and
\* a score the backend computed; while it holds none (the backend has not
\* answered, or only with failures) the displayed score is the
\* client-calculated score.
C20_DisplayScoreSource ==
    page = "UserAnalysis" =>
        /\ BackendStateAvailable <=> cache[BUBBLE_ID] # Undefined
        /\ cache[BUBBLE_ID] # Undefined =>
              /\ displayScore = cache[BUBBLE_ID][1].risk_score
              /\ \E ind \in IndicatorSets :
                    ind.valid /\ displayScore = ind.score
        /\ cache[BUBBLE_ID] = Undefined => displayScore = userScore

\* the page shows a backend score that differs from the client score of the
\* categories on screen
C20_Witness ==
    /\ page = "UserAnalysis"
    /\ cache[BUBBLE_ID] # Undefined
    /\ cache[BUBBLE_ID][1].risk_score # userScore
    /\ displayScore = cache[BUBBLE_ID][1].risk_score

\* a get-status call is answered in this step
StatusAnswered == status.pc = "inflight" /\ status'.pc = "replied"

\* voice call j, for bubble identifier b, is answered in this step
VoiceAnswered(j, b) ==
    /\ j \in DOMAIN voice /\ voice[j].pc = "inflight"
    /\ voice[j].bubble_id = Defined(b)
    /\ voice'[j].pc = "replied"

\* bubble b is created in this step by a successful initialize
CreatedByInitialize(b) ==
    \/ \E i \in DOMAIN inits :
          /\ inits[i].pc = "inflight" /\ inits[i].bubbleId = b
          /\ inits'[i].pc = "replied" /\ inits'[i].response[1].ok
    \/ b = "market" /\ ExternalInitialize

Reinitialized(b, ind) ==
    /\ store[b] # Undefined
    /\ \E i \in DOMAIN inits :
          /\ inits[i].pc = "inflight" /\ inits[i].bubbleId = b
          /\ inits[i].metrics = ind
          /\ inits'[i].pc = "replied" /\ inits'[i].response[1].ok

\* the bubble state the specification derives from an indicator set alone
StatedSnapshot(ind) ==
    LET level == IF ind.score * 100 < 3334 THEN "LOW"
                 ELSE IF ind.score * 100 < 6667 THEN "MEDIUM" ELSE "HIGH"
    IN  [indicators |-> ind.name, risk_score |-> ind.score,
         risk_level |-> level,
         personality |-> CASE level = "LOW" -> "confident/euphoric"
                           [] level = "MEDIUM" -> "anxious/uncertain"
                           [] level = "HIGH" -> "panicked/fragile"]

\* C16: re-initializing an existing bubble leaves it with the new indicator
\* set and the score, level and persona computed from that set alone, with
\* nothing of the previous state kept, answers with that state, and leaves
\* every conversation log unchanged.
C16_ReinitializeReplaces ==
    [][ \A b \in BubbleIds : \A ind \in IndicatorSets \cup {MarketIndicators} :
          Reinitialized(b, ind) =>
              /\ store'[b] = Defined(StatedSnapshot(ind))
              /\ \A i \in DOMAIN inits :
                    inits[i].pc = "inflight" /\ inits'[i].pc = "replied" =>
                        inits'[i].response[1].data = StatedSnapshot(ind)
              /\ log' = log
      ]_vars

\* the personal bubble was re-initialized with other indicators after a voice
\* turn was logged and answered with the earlier state
C16_Witness ==
    /\ store[BUBBLE_ID] # Undefined
    /\ store[BUBBLE_ID][1].indicators = "adjusted"
    /\ store[BUBBLE_ID][1].risk_score = 20
    /\ \E j \in DOMAIN voice :
          /\ voice[j].pc = "replied" /\ voice[j].response[1].ok
          /\ voice[j].response[1].data.snapshot.indicators = "default"
          /\ log[BUBBLE_ID][voice[j].response[1].data.conversation_id] # <<>>

\* voice call j is answered with a completed turn in this step
TurnCompleted(j) ==
    /\ j \in DOMAIN voice /\ voice[j].pc = "inflight"
    /\ voice'[j].pc = "replied" /\ voice'[j].response[1].ok

\* the hook handles the answer of voice call j in this step
AnswerHandled(j) ==
    /\ j \in DOMAIN voice /\ voice[j].pc = "replied"
    /\ voice'[j].pc # "replied"

\* C17: the step that completes a voice turn appends that turn to the log of
\* its (bubble, conversation) pair and changes no other log and no bubble's
\* indicators, score, level or persona; the step in which the client
\* receives a voice response changes no cached bubble state.
C17_VoiceTurnOnlyAppends ==
    [][ /\ \A j \in DOMAIN voice :
              TurnCompleted(j) =>
                  LET b == voice[j].bubble_id[1]
                      c == voice'[j].response[1].data.conversation_id
                  IN  /\ store' = store
                      /\ log' = [log EXCEPT ![b][c] =
                                    @ \o <<UserTurn(j), AgentTurn(j)>>]
        /\ \A j \in DOMAIN voice : AnswerHandled(j) => cache' = cache
      ]_vars

\* the client has received the response of a completed voice turn for the
\* personal bubble, whose state it holds in its cache
C17_Witness ==
    /\ cache[BUBBLE_ID] # Undefined
    /\ \E j \in DOMAIN voice :
          /\ voice[j].pc = "done"
          /\ voice[j].bubble_id = Defined(BUBBLE_ID)
          /\ conversationId # Undefined
          /\ log[BUBBLE_ID][conversationId[1]] # <<>>
          /\ cache[BUBBLE_ID] # store[BUBBLE_ID]

\* a turn of voice call j is in some conversation log
Logged(j) ==
    \E b \in BubbleIds : \E c \in ConvIds : \E k \in DOMAIN log[b][c] :
        log[b][c][k].call = j

\* C19: a voice call that fails at a stage (validation, transcription, state
\* load, reply generation, synthesis) is answered with that failure in a step
\* that appends no turn and changes no backend state; the client sends one
\* request per recording: a call that was answered is never sent again, a
\* failed answer ends the call as failed with processing over, an ended call
\* stays as it ended, and a failed call has no turn in any log.
C19_FailureIsTerminal ==
    [][ \A j \in DOMAIN voice :
          /\ voice[j].pc = "inflight" /\ voice'[j].pc = "replied"
             /\ ~voice'[j].response[1].ok =>
                 /\ voice'[j].response[1].error \in
                       {"ValidationError", "NotFoundError"}
                           \cup (VoiceOutcomes \ {"ok"})
                 /\ log' = log /\ store' = store /\ nextConv' = nextConv
          /\ voice[j].pc = "replied" /\ ~voice[j].response[1].ok
             /\ voice'[j] # voice[j] =>
                 /\ voice'[j].pc = "failed"
                 /\ ~isProcessing'
                 /\ conversationId' = conversationId
                 /\ ~Logged(j)'
          /\ voice[j].pc \in {"replied", "done", "failed"} =>
                 voice'[j].pc # "inflight"
          /\ voice[j].pc \in {"done", "failed"} => voice'[j] = voice[j]
      ]_vars

\* a first call has ended as failed and a second one, for the initialized
\* personal bubble, is answered with a synthesis failure; neither has a turn
\* in a log
C19_Witness ==
    /\ Len(voice) = 2
    /\ voice[1].pc = "failed" /\ ~Logged(1)
    /\ voice[2].pc = "replied" /\ ~voice[2].response[1].ok
    /\ voice[2].response[1].error = "SynthesisError"
    /\ store[BUBBLE_ID] # Undefined
    /\ ~Logged(2)

\* the (bubble, conversation) logs in which call j has a user turn
UserTurnsOf(j) ==
    {<<b, c, k>> \in BubbleIds \X OrchConvIds \X (1..(2 * MaxInvocations)) :
        k \in DOMAIN log[b][c] /\ log[b][c][k] = UserTurn(j)}

\* C18: under every interleaving of concurrent voice calls each log has even
\* length and is a sequence of pairs, a call's user turn immediately followed
\* by the same call's agent reply; a call has exactly one such pair once it
\* has logged, in the log of its own (bubble, conversation) pair, and none
\* before or after a failure.
C18_TurnsAppendedAsPairs ==
    /\ \A b \in BubbleIds : \A c \in OrchConvIds :
          /\ Len(log[b][c]) % 2 = 0
          /\ \A k \in DOMAIN log[b][c] :
                k % 2 = 1 =>
                    \E j \in DOMAIN calls :
                        /\ log[b][c][k] = UserTurn(j)
                        /\ log[b][c][k + 1] = AgentTurn(j)
                        /\ calls[j].bubble_id = b
                        /\ calls[j].conversation_id = Defined(c)
    /\ \A j \in DOMAIN calls :
          Cardinality(UserTurnsOf(j)) =
              IF calls[j].stage \in {"LOGGED", "RETURNED"} THEN 1 ELSE 0

\* two calls on the same (bubble, conversation) pair ran concurrently and
\* were logged in completion order, the later arrival first
C18_Witness ==
    \E b \in BubbleIds : \E c \in OrchConvIds :
        /\ Len(calls) >= 2
        /\ calls[1].stage = "LOGGED" /\ calls[2].stage = "RETURNED"
        /\ log[b][c] = <<UserTurn(2), AgentTurn(2), UserTurn(1), AgentTurn(1)>>

\* min(100, sum(category_score x userWeight) / sum(userWeight)), with the
\* category scores calculateScore itself computes
StatedUserScore(cats) ==
    MathMin(Hundred,
        Div(Sum([i \in DOMAIN cats |->
                   Mul(UserCategoryScore(cats[i]), Num(cats[i].userWeight))]),
            Sum([i \in DOMAIN cats |-> Num(cats[i].userWeight)])))

AtMarketDefaults(cats) ==
    /\ \A i \in DOMAIN cats :
          /\ cats[i].userWeight = cats[i].marketWeight
          /\ \A j \in DOMAIN cats[i].indexes :
                cats[i].indexes[j].userValue = Undefined
    /\ cats = CATEGORIES

\* C22: whatever adjustments preceded it, a reset leaves every category's
\* userWeight at its marketWeight and no index with a userValue, the
\* categories being the built-in CATEGORIES; a reset of a page that is at the
\* market defaults changes nothing of the page's state.
C22_ResetRestoresDefaults ==
    [][ Reset =>
          /\ AtMarketDefaults(pgCategories')
          /\ AtMarketDefaults(pgCategories) /\ pgStorage = Defined(JsonStringify(pgCategories)) =>
                /\ pgCategories' = pgCategories
                /\ pgUserScore' = pgUserScore
                /\ pgStorage' = pgStorage
                /\ pgSent' = pgSent
      ]_vars

\* a reset has run on categories with an adjusted weight and an adjusted
\* index value and left the page at the market defaults
C22_Witness ==
    /\ pgPhase = "mounted"
    /\ pgLast # <<>> /\ pgLast[1].handler = "handleReset"
    /\ \E i \in DOMAIN pgLast[1].before :
          pgLast[1].before[i].userWeight # pgLast[1].before[i].marketWeight
    /\ \E i \in DOMAIN pgLast[1].before :
          \E j \in DOMAIN pgLast[1].before[i].indexes :
              pgLast[1].before[i].indexes[j].userValue # Undefined
    /\ AtMarketDefaults(pgCategories)

\* C23: the metrics categoriesToMetrics returns have exactly the fields
\* MetricsData declares: none is missing and none is undeclared.
C23_PayloadHasDeclaredFields ==
    nmOut # <<>> /\ ~nmOut[1].threw =>
        DOMAIN nmOut[1].metrics = MetricsData

\* C24: after the category score slider of a category is moved to x the
\* score displayed for that category is x and the page's score is the score
\* of the categories then on screen.
C24_ScoreSliderSetsCategoryScore ==
    [][\A c \in EditedCategories, x \in ScoreSamples :
          CategoryScoreChange(c, x) =>
              /\ DisplayedCategoryScore(FindById(pgCategories', c)[1]) = x
              /\ pgUserScore' = Defined(UserCalculateScore(pgCategories'))
      ]_vars

\* every request of the page for the personal bubble has been answered and
\* the answer handled
AllResponsesArrived ==
    /\ \A i \in DOMAIN inits : inits[i].pc \in {"success", "error"}
    /\ status.pc \in {"success", "error"}

\* C25: on the User Analysis page, once the responses to all initialize
\* requests and to the status fetch have arrived, in whatever order, the
\* cached state of the personal bubble is the response to the initialize
\* request issued last (where that request succeeded).
C25_LastIssuedInitializeWins ==
    (/\ page = "UserAnalysis"
     /\ AllResponsesArrived
     /\ inits[Len(inits)].pc = "success")
    => cache[BUBBLE_ID] = Defined(Snapshot(inits[Len(inits)].metrics))

\* C26: whenever isProcessing is true (stopRecording has set it), it is false
\* again later, whether the request succeeds, the request or the playback
\* fails, or the recorded blob cannot be read, given that the file read and
\* the request complete.
C26_ProcessingEnds == isProcessing ~> ~isProcessing

\* processing is over after two recordings: the first ended as failed, for
\* the second a response was received
C26_Witness ==
    /\ ~isProcessing
    /\ Len(voice) = 2
    /\ voice[1].pc = "failed"
    /\ voice[2].pc \in {"done", "failed"}
    /\ conversationId # Undefined

====
